---- MODULE Spec2Model ----
(***************************************************************************)
(* Story generation backend (app/routers/stories.py and app/services).     *)
(*                                                                         *)
(* Spec : the HTTP handlers and the background generation task over the    *)
(*        Firestore collections 'stories' and 'users'.  The Firestore      *)
(*        closures run in the thread-pool executor, so every Firestore     *)
(*        call is one step and the calls of different requests interleave. *)
(* SpecMedia : one call of MediaService.generate_image_batch or            *)
(*        generate_audio_batch with n items (as test_optimizations.py      *)
(*        calls them), the per-item tasks interleaving.                    *)
(* SpecScenes : the upload and assembly part of                            *)
(*        process_scenes_parallel_optimized and the manifest assembly of   *)
(*        generate_story_background, applied to the scenes parsed from an  *)
(*        LLM answer and to media batches of the same length.              *)
(***************************************************************************)
EXTENDS Integers, Sequences, FiniteSets, TLC

\* ---------------------------------------------------------------- bounds
MaxStories == 2      \* generate requests accepted in one run
MaxTasks == 2        \* generate requests / background tasks in flight at once
MaxUsers == 1
MaxFaults == 1       \* Firestore calls that fail with an injected error in one run
MaxScenes == 2       \* scenes of one story / items of one media batch call
MaxDimLen == 5       \* characters of an enumerated `dimensions` string
MaxEarlierFailures == 6  \* provider failures in a row before a batch call starts

\* max_retries of create_image
max_retries == 3

\* `len(image_data) < 1000` of upload_image_data and upload_colored_image
min_image_size == 1000

\* lengths of a scene text; calculate_audio_duration of 7 is 559, not 560
TextLens == {0, 7}

StoryIds == 1..MaxStories
Users == 1..MaxUsers

NoDoc == [absent |-> TRUE]

\* ---------------------------------------------------------------- state
VARIABLES
    stories,   \* Firestore collection 'stories': story_id -> document or NoDoc
    users,     \* Firestore collection 'users': user_id -> document or NoDoc
    pc,        \* position of the generate request / background task of a story_id
    owner,     \* user_id the generate request of a story_id was verified as
    phase,     \* which save_story_metadata call the task is in: "init" or "final"
    snap,      \* user_doc read by save_metadata_with_story_arrays (local variable)
    gen,       \* result of generate_story_scenes of the running task: NoGen, or
               \* [ok, title, n |-> number of scenes]
    hist,      \* per story_id: whether a Firestore call of the running task has failed
    faults,    \* number of Firestore calls that have failed with an injected error
    del,       \* the delete request in flight: position, user, story and the
               \* story_ids it read
    deleted,   \* the story_ids a delete request has succeeded for (history)
    \* --- one media batch call (SpecMedia)
    batch,     \* the call: [kind |-> "image" | "audio" | "none", n |-> items]
    item,      \* per item task: [st, attempt, cuda]
    semaphore, \* free permits of asyncio.Semaphore(1) of generate_image_batch
    out,       \* outcome of the call: [st |-> "running" | "returned" | "raised",
               \* result |-> the returned list]
    provider_failures, \* replicate.run calls that failed in a row, the last
               \* one included (history; the service keeps no such counter)
    \* --- uploads and manifest assembly of one story (SpecScenes)
    scenes,    \* scenes returned by generate_story_scenes: [scene_number, text_len]
    upl,       \* upload_results slot -> "pending" | "ok" | "raised"
    bucket,    \* Firebase Storage: the set of [path, blob] objects stored
    man,       \* manifest passed to the final save_story_metadata, or NoManifest
    \* --- one call of a handler or function on a given store (SpecCalls)
    call,      \* the call made: [op |-> name, ...arguments], or NoCall
    resp       \* what the call answered, returned or raised, or NoResp

dbVars == <<stories, users, pc, owner, phase, snap, gen, hist, faults, del, deleted>>
mediaVars == <<batch, item, semaphore, out, provider_failures>>
sceneVars == <<scenes, upl, bucket, man>>
callVars == <<call, resp>>
vars == <<stories, users, pc, owner, phase, snap, gen, hist, faults, del, deleted,
          batch, item, semaphore, out, provider_failures,
          scenes, upl, bucket, man, call, resp>>

\* ------------------------------------------------------ documents
\* user document fields written by save_metadata_with_story_arrays,
\* delete_story_with_array_update and create_user_profile
UserDoc(ids, cnt) == [story_ids |-> ids, story_count |-> cnt]

NoSnap == [exists |-> FALSE, story_ids |-> <<>>]
NoGen == [ok |-> FALSE, title |-> "", n |-> 0]
NoDel == [pc |-> "idle", user |-> 0, story |-> 0, story_ids |-> <<>>]

\* initial_manifest of generate_story_async
initial_manifest ==
    [status |-> "processing", title |-> "Generating...", total_scenes |-> 0,
     scenes |-> 0, error |-> FALSE]

\* error_manifest copied from initial_manifest with its status left as it was
error_manifest_stale_status ==
    [status |-> "processing", title |-> "Generation Failed", total_scenes |-> 0,
     scenes |-> 0, error |-> TRUE]

\* error_manifest of generate_story_background: no total_scenes, no scenes key
error_manifest ==
    [status |-> "failed", title |-> "Generation Failed", total_scenes |-> 0,
     scenes |-> 0, error |-> TRUE]

\* manifest argument of the save_story_metadata call the task is in
manifest(s) == IF phase[s] = "init" THEN initial_manifest ELSE error_manifest

\* story_doc built by save_metadata_with_story_arrays
story_doc(u, m) ==
    [user_id |-> u, title |-> m.title, status |-> m.status,
     total_scenes |-> m.total_scenes, scenes_data |-> m.scenes,
     manifest_error |-> m.error]

\* `story_id in existing_story_ids`
InSeq(x, q) == \E i \in 1..Len(q) : q[i] = x

\* the index update without the membership test
updated_story_ids_always_append(existing, s) == Append(existing, s)

\* updated_story_ids of save_metadata_with_story_arrays
updated_story_ids(existing, s) ==
    IF ~InSeq(s, existing) THEN Append(existing, s) ELSE existing

\* [sid for sid in story_ids if sid != story_id] of delete_story_with_array_update
RECURSIVE without(_, _)
without(q, s) ==
    IF q = <<>> THEN <<>>
    ELSE IF Head(q) = s THEN without(Tail(q), s)
         ELSE <<Head(q)>> \o without(Tail(q), s)

\* ------------------------------------------------------ Init
NoBatch == [kind |-> "none", n |-> 0]
NoOut == [st |-> "running", result |-> <<>>]
NoManifest == [status |-> "none"]

\* no media batch call is in progress
MediaIdle ==
    /\ batch = NoBatch
    /\ item = <<>>
    /\ semaphore = 1
    /\ out = NoOut
    /\ provider_failures = 0

\* no upload and assembly is in progress
ScenesIdle ==
    /\ scenes = <<>>
    /\ upl = <<>>
    /\ bucket = {}
    /\ man = NoManifest

\* no single call is being looked at
NoCall == [op |-> "none"]
NoResp == [none |-> TRUE]
CallsIdle ==
    /\ call = NoCall
    /\ resp = NoResp

\* the collections before the first request
InitDb ==
    /\ stories = [s \in StoryIds |-> NoDoc]
    /\ users \in [Users -> {NoDoc, UserDoc(<<>>, 0)}]
    /\ pc = [s \in StoryIds |-> "idle"]
    /\ owner = [s \in StoryIds |-> 0]
    /\ phase = [s \in StoryIds |-> "init"]
    /\ snap = [s \in StoryIds |-> NoSnap]
    /\ gen = [s \in StoryIds |-> NoGen]
    /\ hist = [s \in StoryIds |-> FALSE]
    /\ faults = 0
    /\ del = NoDel
    /\ deleted = {}

\* no request is in progress and the collections are empty
DbIdle ==
    /\ InitDb
    /\ users = [u \in Users |-> NoDoc]

Init == InitDb /\ MediaIdle /\ ScenesIdle /\ CallsIdle

\* an injected Firestore error is available
CanFail == faults < MaxFaults

InFlight == {s \in StoryIds : pc[s] \notin {"idle", "done"}}

\* ------------------------------------------------------ generate
\* POST /stories/generate with a token that verifies as user u: allocate the
\* story_id and enter save_story_metadata(initial_manifest).
generate_story_async(s, u) ==
    /\ pc[s] = "idle"
    /\ \A t \in StoryIds : t < s => pc[t] # "idle"
    /\ Cardinality(InFlight) < MaxTasks
    /\ owner' = [owner EXCEPT ![s] = u]
    /\ phase' = [phase EXCEPT ![s] = "init"]
    /\ pc' = [pc EXCEPT ![s] = "sv_set"]
    /\ UNCHANGED <<stories, users, snap, gen, hist, faults, del>>
    /\ UNCHANGED <<deleted, mediaVars, sceneVars, callVars>>

\* where a save_story_metadata call returns to: the generate handler creates
\* the background task and answers; the background task ends.
AfterSave(s) == IF phase[s] = "init" THEN "bg_text" ELSE "done"

\* the function result and the failure record of a task die with the task
GenAfter(s) == IF phase[s] = "init" THEN gen[s] ELSE NoGen
HistAfter(s, h) == IF phase[s] = "init" THEN h ELSE FALSE

\* save_story_metadata: `except Exception` swallows the error of any
\* Firestore call (also `if not self.db: return`); nothing more is written.
SaveFails(s) ==
    /\ pc[s] \in {"sv_set", "sv_get_user", "sv_number", "sv_user"}
    /\ CanFail
    /\ faults' = faults + 1
    /\ pc' = [pc EXCEPT ![s] = AfterSave(s)]
    /\ hist' = [hist EXCEPT ![s] = HistAfter(s, TRUE)]
    /\ gen' = [gen EXCEPT ![s] = GenAfter(s)]
    /\ snap' = [snap EXCEPT ![s] = NoSnap]
    /\ UNCHANGED <<stories, users, owner, phase, del>>
    /\ UNCHANGED <<deleted, mediaVars, sceneVars, callVars>>

\* doc_ref.set(story_doc)
SaveSetStory(s) ==
    /\ pc[s] = "sv_set"
    /\ stories' = [stories EXCEPT ![s] = story_doc(owner[s], manifest(s))]
    /\ pc' = [pc EXCEPT ![s] = "sv_get_user"]
    /\ UNCHANGED <<users, owner, phase, snap, gen, hist, faults, del>>
    /\ UNCHANGED <<deleted, mediaVars, sceneVars, callVars>>

\* user_doc = user_ref.get()
SaveGetUser(s) ==
    /\ pc[s] = "sv_get_user"
    /\ snap' = [snap EXCEPT ![s] =
                  IF users[owner[s]] = NoDoc THEN NoSnap
                  ELSE [exists |-> TRUE, story_ids |-> users[owner[s]].story_ids]]
    /\ pc' = [pc EXCEPT ![s] = "sv_number"]
    /\ UNCHANGED <<stories, users, owner, phase, gen, hist, faults, del>>
    /\ UNCHANGED <<deleted, mediaVars, sceneVars, callVars>>

\* doc_ref.update({'story_number': new_story_count}); update of a missing
\* document raises NotFound, which save_story_metadata swallows.
SaveStoryNumber(s) ==
    /\ pc[s] = "sv_number"
    /\ IF stories[s] = NoDoc
       THEN /\ pc' = [pc EXCEPT ![s] = AfterSave(s)]
            /\ hist' = [hist EXCEPT ![s] = HistAfter(s, TRUE)]
            /\ gen' = [gen EXCEPT ![s] = GenAfter(s)]
            /\ snap' = [snap EXCEPT ![s] = NoSnap]
       ELSE /\ pc' = [pc EXCEPT ![s] = "sv_user"]
            /\ UNCHANGED <<hist, snap, gen>>
    /\ UNCHANGED <<stories, users, owner, phase, faults, del>>
    /\ UNCHANGED <<deleted, mediaVars, sceneVars, callVars>>

\* user_ref.update(user_update_data) if user_doc.exists else user_ref.set(...)
SaveUpdateUser(s) ==
    /\ pc[s] = "sv_user"
    /\ LET u == owner[s]
           ids == updated_story_ids(snap[s].story_ids, s)
       IN IF snap[s].exists /\ users[u] = NoDoc
          THEN /\ hist' = [hist EXCEPT ![s] = HistAfter(s, TRUE)]
               /\ UNCHANGED users
          ELSE /\ users' = [users EXCEPT ![u] = UserDoc(ids, Len(ids))]
               /\ hist' = [hist EXCEPT ![s] = HistAfter(s, hist[s])]
    /\ pc' = [pc EXCEPT ![s] = AfterSave(s)]
    /\ gen' = [gen EXCEPT ![s] = GenAfter(s)]
    /\ snap' = [snap EXCEPT ![s] = NoSnap]
    /\ UNCHANGED <<stories, owner, phase, faults, del>>
    /\ UNCHANGED <<deleted, mediaVars, sceneVars, callVars>>

\* ------------------------------------------------------ background task
\* enter save_story_metadata(error_manifest) from the except clause
ToErrorSave(s) ==
    /\ phase' = [phase EXCEPT ![s] = "final"]
    /\ pc' = [pc EXCEPT ![s] = "sv_set"]

\* generate_story_scenes: the profile read, then the LLM call and the parse
\* of its JSON into scenes and title.  The scenes are not used by any later
\* step of this specification (process_scenes_parallel_optimized raises
\* before it starts a synthesis), so their number is not varied here.
TextGenerated(s) ==
    /\ pc[s] = "bg_text"
    /\ users[owner[s]] # NoDoc
    /\ gen' = [gen EXCEPT ![s] = [ok |-> TRUE, title |-> "T", n |-> MaxScenes]]
    /\ pc' = [pc EXCEPT ![s] = "bg_status"]
    /\ UNCHANGED <<stories, users, owner, phase, snap, hist, faults, del>>
    /\ UNCHANGED <<deleted, mediaVars, sceneVars, callVars>>

\* a failed generate_story_scenes whose exception is not caught: the task
\* goes on to the status update
TextFails_goes_on(s) ==
    /\ pc[s] = "bg_text"
    /\ pc' = [pc EXCEPT ![s] = "bg_status"]
    /\ UNCHANGED <<stories, users, owner, phase, snap, gen, hist, faults, del>>
    /\ UNCHANGED <<deleted, mediaVars, sceneVars, callVars>>

\* generate_story_scenes raises HTTPException: profile missing, LLM call or
\* JSON parse failed; generate_story_background catches it.
TextFails(s) ==
    /\ pc[s] = "bg_text"
    /\ ToErrorSave(s)
    /\ UNCHANGED <<stories, users, owner, snap, gen, hist, faults, del>>
    /\ UNCHANGED <<deleted, mediaVars, sceneVars, callVars>>

\* update_story_status_and_title(story_id, "generating_media", title):
\* doc_ref.update; a missing document or a failing call raises, swallowed.
update_story_status_and_title(s) ==
    /\ pc[s] = "bg_status"
    /\ \/ /\ stories[s] # NoDoc
          /\ LET d == stories[s]
             IN stories' = [stories EXCEPT ![s] =
                   [d EXCEPT !.status = "generating_media",
                             !.title = IF gen[s].title # "" THEN gen[s].title
                                       ELSE d.title]]
          /\ UNCHANGED <<hist, faults>>
       \/ /\ stories[s] = NoDoc
          /\ hist' = [hist EXCEPT ![s] = TRUE]
          /\ UNCHANGED <<stories, faults>>
       \/ /\ CanFail
          /\ faults' = faults + 1
          /\ hist' = [hist EXCEPT ![s] = TRUE]
          /\ UNCHANGED stories
    /\ pc' = [pc EXCEPT ![s] = "bg_media"]
    /\ UNCHANGED <<users, owner, phase, snap, gen, del>>
    /\ UNCHANGED <<deleted, mediaVars, sceneVars, callVars>>

\* process_scenes_parallel_optimized builds batch_tasks with
\* media_service.generate_image_batch(visual_prompts, child_image_url,
\* target_dimensions); MediaService.generate_image_batch takes
\* (visual_prompts, child_image_url) only, so the call raises TypeError
\* before any synthesis starts; generate_story_background catches it.
process_scenes_parallel_optimized(s) ==
    /\ pc[s] = "bg_media"
    /\ ToErrorSave(s)
    /\ UNCHANGED <<stories, users, owner, snap, gen, hist, faults, del>>
    /\ UNCHANGED <<deleted, mediaVars, sceneVars, callVars>>

\* ------------------------------------------------------ delete
\* DELETE /stories/user/{token}/story/{story_id} verified as user u:
\* user_ref.get() and the membership test; a request that fails them
\* returns False and changes nothing.
delete_user_story(u, s) ==
    /\ del.pc = "idle"
    /\ users[u] # NoDoc
    /\ InSeq(s, users[u].story_ids)
    /\ del' = [pc |-> "d_story", user |-> u, story |-> s,
               story_ids |-> users[u].story_ids]
    /\ UNCHANGED <<stories, users, pc, owner, phase, snap, gen, hist, faults>>
    /\ UNCHANGED <<deleted, mediaVars, sceneVars, callVars>>

\* story_ref.get(): the document must exist and belong to the user
DeleteGetStory ==
    /\ del.pc = "d_story"
    /\ del' = IF stories[del.story] # NoDoc /\ stories[del.story].user_id = del.user
              THEN [del EXCEPT !.pc = "d_delete"]
              ELSE NoDel
    /\ UNCHANGED <<stories, users, pc, owner, phase, snap, gen, hist, faults>>
    /\ UNCHANGED <<deleted, mediaVars, sceneVars, callVars>>

\* story_ref.delete()
DeleteStoryDoc ==
    /\ del.pc = "d_delete"
    /\ stories' = [stories EXCEPT ![del.story] = NoDoc]
    /\ del' = [del EXCEPT !.pc = "d_update"]
    /\ UNCHANGED <<users, pc, owner, phase, snap, gen, hist, faults>>
    /\ UNCHANGED <<deleted, mediaVars, sceneVars, callVars>>

\* user_ref.update({'story_ids': updated_story_ids, 'story_count': ...});
\* NotFound on a missing user document is swallowed (returns False).
DeleteUpdateUser ==
    /\ del.pc = "d_update"
    /\ LET ids == without(del.story_ids, del.story)
       IN users' = IF users[del.user] = NoDoc THEN users
                   ELSE [users EXCEPT ![del.user] = UserDoc(ids, Len(ids))]
    /\ deleted' = IF users[del.user] = NoDoc THEN deleted
                  ELSE deleted \cup {del.story}
    /\ del' = NoDel
    /\ UNCHANGED <<stories, pc, owner, phase, snap, gen, hist, faults>>
    /\ UNCHANGED <<mediaVars, sceneVars, callVars>>

\* any Firestore call of the closure raises: `except Exception: return False`
DeleteFails ==
    /\ del.pc \in {"d_story", "d_delete", "d_update"}
    /\ CanFail
    /\ faults' = faults + 1
    /\ del' = NoDel
    /\ UNCHANGED <<stories, users, pc, owner, phase, snap, gen, hist>>
    /\ UNCHANGED <<deleted, mediaVars, sceneVars, callVars>>

\* ------------------------------------------------------ fetch
\* StorageService.get_story_details(story_id) on the document read (doc) or
\* on a failing read (raises): the story data, or HTTPException(404) for a
\* missing document, or HTTPException(500) wrapping any other exception
get_story_details(doc, raises) ==
    IF raises THEN [raised |-> TRUE, code |-> 500, data |-> NoDoc]
    ELSE IF doc = NoDoc THEN [raised |-> TRUE, code |-> 404, data |-> NoDoc]
    ELSE [raised |-> FALSE, code |-> 0, data |-> doc]

\* an HTTP answer: status code, the keys of the JSON object, and the value
\* of its 'status' key ("" when the object has none)
Answer(code, keys, status) == [code |-> code, keys |-> keys, status |-> status]

\* GET /stories/fetch/{story_id} on the outcome r of get_story_details.
\* HTTPException is an Exception, so the 404 of a missing document reaches
\* the handler's `except Exception` (the `if not story_details` branch is
\* never taken); the answer for a completed story has no 'status' key.
fetch_answer(r) ==
    IF r.raised
    THEN Answer(200, {"success", "status", "message", "story_id"}, "error")
    ELSE IF r.data.status = "completed"
    THEN Answer(200, {"success", "message", "story", "performance_info"}, "")
    ELSE IF r.data.status = "failed"
    THEN Answer(200, {"success", "status", "message", "story_id"}, "failed")
    ELSE Answer(200, {"success", "status", "message", "story_id", "title",
                      "estimated_completion"}, r.data.status)

\* the 'status' a poll of story_id s is answered with in the current state
fetch_story_status(s) == fetch_answer(get_story_details(stories[s], FALSE)).status

\* ------------------------------------------------------ specification
Next ==
    \/ \E s \in StoryIds, u \in Users : generate_story_async(s, u)
    \/ \E s \in StoryIds : SaveFails(s)
    \/ \E s \in StoryIds : SaveSetStory(s)
    \/ \E s \in StoryIds : SaveGetUser(s)
    \/ \E s \in StoryIds : SaveStoryNumber(s)
    \/ \E s \in StoryIds : SaveUpdateUser(s)
    \/ \E s \in StoryIds : TextGenerated(s)
    \/ \E s \in StoryIds : TextFails(s)
    \/ \E s \in StoryIds : update_story_status_and_title(s)
    \/ \E s \in StoryIds : process_scenes_parallel_optimized(s)
    \/ \E s \in StoryIds, u \in Users : delete_user_story(u, s)
    \/ DeleteGetStory
    \/ DeleteStoryDoc
    \/ DeleteUpdateUser
    \/ DeleteFails

Spec == Init /\ [][Next]_vars

\* ====================================================== media batch calls
\* tasks = [generate_single_...(d) for d in ...]: item i of the call
Items == 1..batch.n

Finished(i) == item[i].st \in {"done", "exc"}

\* one call of generate_image_batch or generate_audio_batch with n items;
\* an image task first waits for the semaphore, an audio task starts at once
InitMedia ==
    /\ \E k \in {"image", "audio"}, n \in 1..MaxScenes :
          /\ batch = [kind |-> k, n |-> n]
          /\ item = [i \in 1..n |->
                       [st |-> IF k = "image" THEN "waiting" ELSE "run",
                        attempt |-> 0]]
    /\ semaphore = 1
    /\ out = NoOut
    /\ provider_failures \in 0..MaxEarlierFailures
    /\ DbIdle
    /\ ScenesIdle
    /\ CallsIdle

\* tasks entering the block without waiting for a permit
ImgAcquire_no_limit(i) ==
    /\ batch.kind = "image" /\ out.st = "running"
    /\ item[i].st = "waiting"
    /\ semaphore' = semaphore - 1
    /\ item' = [item EXCEPT ![i].st = "run"]
    /\ UNCHANGED <<batch, out, provider_failures>>
    /\ UNCHANGED <<dbVars, sceneVars, callVars>>

\* `async with semaphore:` of generate_single_image_replicate
ImgAcquire(i) ==
    /\ batch.kind = "image" /\ out.st = "running"
    /\ item[i].st = "waiting"
    /\ semaphore > 0
    /\ semaphore' = semaphore - 1
    /\ item' = [item EXCEPT ![i].st = "run"]
    /\ UNCHANGED <<batch, out, provider_failures>>
    /\ UNCHANGED <<dbVars, sceneVars, callVars>>

\* replicate.run returned a non-empty output: leave the retry loop
ImgRunOutput(i) ==
    /\ batch.kind = "image" /\ out.st = "running"
    /\ item[i].st = "run"
    /\ item' = [item EXCEPT ![i].st = "download"]
    /\ provider_failures' = 0
    /\ UNCHANGED <<batch, out, semaphore>>
    /\ UNCHANGED <<dbVars, sceneVars, callVars>>

\* replicate.run raised "CUDA out of memory" (cuda) or another error, or
\* returned an empty output: only a CUDA error before the last attempt is
\* retried; every other failure is raised by the task, which leaves the
\* `async with` block.
ImgRunFails(i, cuda) ==
    /\ batch.kind = "image" /\ out.st = "running"
    /\ item[i].st = "run"
    /\ IF cuda /\ item[i].attempt < max_retries - 1
       THEN /\ item' = [item EXCEPT ![i].attempt = @ + 1]
            /\ UNCHANGED semaphore
       ELSE /\ item' = [item EXCEPT ![i].st = "exc"]
            /\ semaphore' = semaphore + 1
    /\ provider_failures' = provider_failures + 1
    /\ UNCHANGED <<batch, out>>
    /\ UNCHANGED <<dbVars, sceneVars, callVars>>

\* requests.get of the output URL, resize and JPEG encoding: the task
\* returns the image bytes, or raises (HTTP status, corrupt image)
ImgDownload(i, ok) ==
    /\ batch.kind = "image" /\ out.st = "running"
    /\ item[i].st = "download"
    /\ item' = [item EXCEPT ![i].st = IF ok THEN "done" ELSE "exc"]
    /\ semaphore' = semaphore + 1
    /\ UNCHANGED <<batch, out, provider_failures>>
    /\ UNCHANGED <<dbVars, sceneVars, callVars>>

\* create_tts of generate_single_audio_openai returns the bytes or raises
AudRun(i, ok) ==
    /\ batch.kind = "audio" /\ out.st = "running"
    /\ item[i].st = "run"
    /\ item' = [item EXCEPT ![i].st = IF ok THEN "done" ELSE "exc"]
    /\ UNCHANGED <<batch, out, semaphore, provider_failures>>
    /\ UNCHANGED <<dbVars, sceneVars, callVars>>

\* result list of asyncio.gather(*tasks, return_exceptions=True)
gather_results == [i \in Items |-> IF item[i].st = "done" THEN <<batch.kind, i>>
                                   ELSE <<"exception", i>>]

\* the loop over the gathered results: `raise result` on the first
\* exception, else the list of the results in task order
collect(results) ==
    IF \E i \in 1..Len(results) : results[i][1] = "exception"
    THEN [st |-> "raised", result |-> <<>>]
    ELSE [st |-> "returned", result |-> results]

\* generate_image_batch after the gather: collect, `except Exception: raise e`
generate_image_batch ==
    /\ batch.kind = "image" /\ out.st = "running"
    /\ \A i \in Items : Finished(i)
    /\ out' = collect(gather_results)
    /\ UNCHANGED <<batch, item, semaphore, provider_failures>>
    /\ UNCHANGED <<dbVars, sceneVars, callVars>>

\* generate_audio_batch_openai after the gather (generate_audio_batch
\* re-raises what it raises)
generate_audio_batch_openai ==
    /\ batch.kind = "audio" /\ out.st = "running"
    /\ \A i \in Items : Finished(i)
    /\ out' = collect(gather_results)
    /\ UNCHANGED <<batch, item, semaphore, provider_failures>>
    /\ UNCHANGED <<dbVars, sceneVars, callVars>>

\* asyncio.wait_for(..., timeout) expires while a task is unfinished: the
\* gather is cancelled (a cancelled holder leaves the `async with` block, a
\* waiting task never enters it) and `except asyncio.TimeoutError` raises
\* HTTPException(500). The executor thread of a cancelled holder cannot be
\* cancelled: its request stays in flight, abandoned.
BatchTimeout ==
    /\ batch.kind \in {"image", "audio"} /\ out.st = "running"
    /\ \E i \in Items : ~Finished(i)
    /\ out' = [st |-> "raised", result |-> <<>>]
    /\ item' = [i \in Items |->
                  IF Finished(i) THEN item[i]
                  ELSE IF item[i].st = "waiting"
                       THEN [item[i] EXCEPT !.st = "cancelled"]
                       ELSE [item[i] EXCEPT !.st = "abandoned"]]
    /\ semaphore' = 1
    /\ UNCHANGED <<batch, provider_failures>>
    /\ UNCHANGED <<dbVars, sceneVars, callVars>>

NextMedia ==
    \/ \E i \in Items : ImgAcquire(i)
    \/ \E i \in Items : ImgRunOutput(i)
    \/ \E i \in Items, cuda \in BOOLEAN : ImgRunFails(i, cuda)
    \/ \E i \in Items, ok \in BOOLEAN : ImgDownload(i, ok)
    \/ \E i \in Items, ok \in BOOLEAN : AudRun(i, ok)
    \/ generate_image_batch
    \/ generate_audio_batch_openai
    \/ BatchTimeout

SpecMedia == InitMedia /\ [][NextMedia]_vars

\* ====================================================== uploads and manifest
\* calculate_audio_duration: int(len(text) / 5 / 150 * 60 * 1000) in float
\* arithmetic, which for these lengths falls just below the integer 80 * len
FloatBelow == {7, 14, 17, 23, 28}
calculate_audio_duration(len) ==
    IF len \in FloatBelow THEN 80 * len - 1 ELSE 80 * len

\* object path of upload_audio / upload_colored_image / upload_image_data:
\* stories/{story_id}/{audio|images}/scene_{scene_number}[_colored|_grayscale]
Path(kind, scene_number) == <<kind, scene_number>>

\* blob.public_url of the object at a path
public_url(path) == <<"url", path>>

Kinds == {"audio", "colored", "grayscale"}
Paths == {Path(k, n) : k \in Kinds, n \in 1..MaxScenes}

\* upload_results index of the audio and of the image upload of scenes[i]
AudioSlot(i) == 2 * i - 1
ImageSlot(i) == 2 * i

\* the scenes of one story as parsed from the LLM answer (scene_number is
\* copied from the JSON), with audio_batch[i] and image_batch[i] the media
\* synthesized for scenes[i]
InitScenes ==
    /\ \E n \in 1..MaxScenes :
          /\ scenes \in [1..n -> [scene_number : 1..MaxScenes, text_len : TextLens]]
          /\ upl = [k \in 1..(2 * n) |-> "pending"]
    /\ bucket = [p \in Paths |-> 0]
    /\ man = NoManifest
    /\ DbIdle
    /\ MediaIdle
    /\ CallsIdle

\* storage_service.upload_audio(audio_batch[i], story_id, scene.scene_number):
\* stores the blob and returns its URL, or raises HTTPException
upload_audio(i, ok) ==
    /\ i \in 1..Len(scenes)
    /\ upl[AudioSlot(i)] = "pending"
    /\ IF ok
       THEN /\ bucket' = [bucket EXCEPT ![Path("audio", scenes[i].scene_number)] = i]
            /\ upl' = [upl EXCEPT ![AudioSlot(i)] = "ok"]
       ELSE /\ upl' = [upl EXCEPT ![AudioSlot(i)] = "raised"]
            /\ UNCHANGED bucket
    /\ UNCHANGED <<scenes, man>>
    /\ UNCHANGED <<dbVars, mediaVars, callVars>>

\* storage_service.upload_both_images(image_batch[i], story_id,
\* scene.scene_number): upload_colored_image and upload_image_data gathered;
\* returns both URLs when both uploads succeed, else raises HTTPException
upload_both_images(i, colored_ok, grayscale_ok) ==
    /\ i \in 1..Len(scenes)
    /\ upl[ImageSlot(i)] = "pending"
    /\ LET n == scenes[i].scene_number
       IN bucket' = [p \in Paths |->
             IF p = Path("colored", n) /\ colored_ok THEN i
             ELSE IF p = Path("grayscale", n) /\ grayscale_ok THEN i
             ELSE bucket[p]]
    /\ upl' = [upl EXCEPT ![ImageSlot(i)] =
                 IF colored_ok /\ grayscale_ok THEN "ok" ELSE "raised"]
    /\ UNCHANGED <<scenes, man>>
    /\ UNCHANGED <<dbVars, mediaVars, callVars>>

\* upload_results[i * 2] and upload_results[i * 2 + 1] of a finished gather
audio_url(i) == public_url(Path("audio", scenes[i].scene_number))
image_urls(i) ==
    [grayscale_url |-> public_url(Path("grayscale", scenes[i].scene_number)),
     colored_url |-> public_url(Path("colored", scenes[i].scene_number))]

\* processed_scenes_with_duration: (scene, audio_duration) per scene
duration_of(i) == calculate_audio_duration(scenes[i].text_len)

\* start time assigned after current_time was advanced by the scene itself
RECURSIVE start_time_after_increment(_)
start_time_after_increment(i) ==
    IF i = 1 THEN duration_of(1)
    ELSE start_time_after_increment(i - 1) + duration_of(i)

\* scene.start_time of generate_story_background: current_time before the
\* scene's duration is added
RECURSIVE start_time(_)
start_time(i) == IF i = 1 THEN 0 ELSE start_time(i - 1) + duration_of(i - 1)

\* current_time after the loop
total_duration == IF Len(scenes) = 0 THEN 0
                  ELSE start_time(Len(scenes)) + duration_of(Len(scenes))

\* scene_data of generate_story_background
scene_data(i) ==
    [scene_number |-> scenes[i].scene_number,
     text_len |-> scenes[i].text_len,
     audio_url |-> audio_url(i),
     image_url |-> image_urls(i).grayscale_url,
     colored_image_url |-> image_urls(i).colored_url,
     start_time |-> start_time(i),
     duration |-> calculate_audio_duration(scenes[i].text_len)]

\* the final manifest of generate_story_background
final_manifest ==
    [status |-> "completed",
     total_scenes |-> Len(scenes),
     total_duration |-> total_duration,
     scenes |-> [i \in 1..Len(scenes) |-> scene_data(i)]]

\* the manifest built from whatever the uploads returned, as a gather with
\* return_exceptions=True would allow
AssembleManifest_ignoring_failures ==
    /\ man = NoManifest
    /\ Len(scenes) > 0
    /\ \A k \in 1..Len(upl) : upl[k] # "pending"
    /\ man' = final_manifest
    /\ UNCHANGED <<scenes, upl, bucket>>
    /\ UNCHANGED <<dbVars, mediaVars, callVars>>

\* gather(*upload_tasks) returned: process the results, compute the timings
\* and build the manifest handed to save_story_metadata
AssembleManifest ==
    /\ man = NoManifest
    /\ Len(scenes) > 0
    /\ \A k \in 1..Len(upl) : upl[k] = "ok"
    /\ man' = final_manifest
    /\ UNCHANGED <<scenes, upl, bucket>>
    /\ UNCHANGED <<dbVars, mediaVars, callVars>>

\* an upload raised: gather propagates it (the other uploads go on) and
\* generate_story_background builds error_manifest
UploadRaised ==
    /\ man = NoManifest
    /\ \E k \in 1..Len(upl) : upl[k] = "raised"
    /\ man' = [status |-> "failed", total_scenes |-> 0, total_duration |-> 0,
               scenes |-> <<>>]
    /\ UNCHANGED <<scenes, upl, bucket>>
    /\ UNCHANGED <<dbVars, mediaVars, callVars>>

NextScenes ==
    \/ \E i \in 1..MaxScenes, ok \in BOOLEAN : upload_audio(i, ok)
    \/ \E i \in 1..MaxScenes, c \in BOOLEAN, g \in BOOLEAN : upload_both_images(i, c, g)
    \/ AssembleManifest
    \/ UploadRaised

SpecScenes == InitScenes /\ [][NextScenes]_vars

\* ====================================================== single calls
\* the users of the store a single call is made on: the requester and at
\* least one other user
CallUsers == 1..(MaxUsers + 1)

\* story documents as save_story_metadata and update_story_status_and_title
\* write them, one for each status
completed_manifest ==
    [status |-> "completed", title |-> "T", total_scenes |-> MaxScenes,
     scenes |-> MaxScenes, error |-> FALSE]

StoredDocs ==
    {NoDoc} \cup
    UNION {{story_doc(u, initial_manifest),
            [story_doc(u, initial_manifest) EXCEPT !.status = "generating_media",
                                                   !.title = "T"],
            story_doc(u, error_manifest),
            story_doc(u, completed_manifest)} : u \in CallUsers}

\* story_ids as the saves and deletes leave them: no id twice, in any order
IndexLists ==
    {q \in UNION {[1..n -> StoryIds] : n \in 0..MaxStories} :
        \A i, j \in 1..Len(q) : q[i] = q[j] => i = j}

StoredUsers == {NoDoc} \cup {UserDoc(q, Len(q)) : q \in IndexLists}

\* the documents of finished stories, whoever owns them
OwnedDocs == {NoDoc} \cup {story_doc(u, completed_manifest) : u \in CallUsers}

\* no user document is stored (the index write of every save failed)
NoUsers == users = [u \in CallUsers |-> NoDoc]

\* a story_id is generated for one user: only that user's saves write its
\* document and put it in an index. A failed write can leave a document
\* that no index lists and an index entry without a document.
Consistent(st, us) ==
    \A u \in CallUsers, s \in StoryIds :
        (us[u] # NoDoc /\ InSeq(s, us[u].story_ids)) =>
            /\ IF st[s] = NoDoc THEN TRUE ELSE st[s].user_id = u
            /\ \A v \in CallUsers \ {u} :
                   IF us[v] = NoDoc THEN TRUE ELSE ~InSeq(s, us[v].story_ids)

\* the store a single call is made on, no request in flight: documents of
\* any status without user documents, or finished stories of any owner with
\* any user documents
InitCalls ==
    /\ \/ /\ stories \in [StoryIds -> StoredDocs]
          /\ NoUsers
       \/ /\ stories \in [StoryIds -> OwnedDocs]
          /\ users \in [CallUsers -> StoredUsers]
          /\ Consistent(stories, users)
    /\ pc = [s \in StoryIds |-> "idle"]
    /\ owner = [s \in StoryIds |-> 0]
    /\ phase = [s \in StoryIds |-> "init"]
    /\ snap = [s \in StoryIds |-> NoSnap]
    /\ gen = [s \in StoryIds |-> NoGen]
    /\ hist = [s \in StoryIds |-> FALSE]
    /\ faults = 0
    /\ del = NoDel
    /\ deleted = {}
    /\ MediaIdle
    /\ scenes = <<>>
    /\ upl = <<>>
    /\ bucket = [p \in Paths |-> 0]
    /\ man = NoManifest
    /\ CallsIdle

\* GET /stories/fetch/{story_id}; raises: the Firestore read fails. The
\* call does not read the users collection and is made without user documents.
FetchCall(s, raises) ==
    /\ call = NoCall
    /\ NoUsers
    /\ call' = [op |-> "fetch", story |-> s, raises |-> raises]
    /\ resp' = fetch_answer(get_story_details(stories[s], raises))
    /\ UNCHANGED <<dbVars, mediaVars, sceneVars>>

\* GET /stories/details/{story_id} on the outcome r of
\* StorageService.get_story_details: every exception, the HTTPException(404)
\* of a missing document included, is turned into HTTPException(400)
details_answer(r) ==
    IF r.raised THEN Answer(400, {"detail"}, "")
    ELSE Answer(200, {"success", "story"}, "")

DetailsCall(s, raises) ==
    /\ call = NoCall
    /\ NoUsers
    /\ call' = [op |-> "details", story |-> s, raises |-> raises]
    /\ resp' = details_answer(get_story_details(stories[s], raises))
    /\ UNCHANGED <<dbVars, mediaVars, sceneVars>>

\* the store is empty: calls that do not read it are made on this store only
EmptyStore ==
    /\ stories = [s \in StoryIds |-> NoDoc]
    /\ users = [u \in CallUsers |-> NoDoc]

\* ------------------------------------------------------ parse_dimensions
\* the `dimensions` argument: None, or a string as its sequence of characters
None == [none |-> TRUE, chars |-> <<>>]
Str(q) == [none |-> FALSE, chars |-> q]

DimChars == {"3", "4", "x", "g", "-"}
DimExamples ==
    {<<"9", "3", "2", "x", "4", "3", "0">>,
     <<"1", "2", "0", "0", "x", "2", "6", "0", "0">>,
     <<"g", "a", "r", "b", "a", "g", "e">>,
     <<"1", "0", "0">>}
DimInputs ==
    {None} \cup {Str(q) : q \in DimExamples}
    \cup {Str(q) : q \in UNION {[1..n -> DimChars] : n \in 0..MaxDimLen}}

Digits == {"0", "1", "2", "3", "4", "5", "6", "7", "8", "9"}
DigitVal(c) ==
    CASE c = "0" -> 0 [] c = "1" -> 1 [] c = "2" -> 2 [] c = "3" -> 3
      [] c = "4" -> 4 [] c = "5" -> 5 [] c = "6" -> 6 [] c = "7" -> 7
      [] c = "8" -> 8 [] c = "9" -> 9

\* str.split('x'): the pieces between the separators, empty pieces kept
RECURSIVE split(_)
split(q) ==
    IF \A i \in 1..Len(q) : q[i] # "x" THEN <<q>>
    ELSE LET k == CHOOSE i \in 1..Len(q) :
                     q[i] = "x" /\ \A j \in 1..(i - 1) : q[j] # "x"
         IN <<SubSeq(q, 1, k - 1)>> \o split(SubSeq(q, k + 1, Len(q)))

\* int(q) of these characters: an optional sign and at least one digit, else
\* ValueError
AllDigits(q) == Len(q) > 0 /\ \A i \in 1..Len(q) : q[i] \in Digits
IsInt(q) == AllDigits(q) \/ (Len(q) > 1 /\ q[1] = "-" /\ AllDigits(Tail(q)))
RECURSIVE NatVal(_)
NatVal(q) ==
    IF q = <<>> THEN 0
    ELSE 10 * NatVal(SubSeq(q, 1, Len(q) - 1)) + DigitVal(q[Len(q)])
int(q) == IF q[1] = "-" THEN 0 - NatVal(Tail(q)) ELSE NatVal(q)

Return(v) == [raised |-> FALSE, value |-> v]
Raise(e) == [raised |-> TRUE, value |-> e]

\* the try body: `width, height = dimensions_str.split('x')` and
\* `return (int(width), int(height))`
parse_dimensions_try(d) ==
    IF d.none THEN Raise("AttributeError")
    ELSE LET parts == split(d.chars)
         IN IF Len(parts) # 2 THEN Raise("ValueError")
            ELSE IF ~IsInt(parts[1]) \/ ~IsInt(parts[2]) THEN Raise("ValueError")
            ELSE Return(<<int(parts[1]), int(parts[2])>>)

\* parse_dimensions with `except ValueError:` in place of the bare except
parse_dimensions_except_ValueError(d) ==
    LET r == parse_dimensions_try(d)
    IN IF r.raised /\ r.value = "ValueError" THEN Return(<<1200, 2600>>) ELSE r

\* parse_dimensions: the bare `except:` returns the portrait default
parse_dimensions(d) ==
    LET r == parse_dimensions_try(d)
    IN IF r.raised THEN Return(<<1200, 2600>>) ELSE r

ParseCall(d) ==
    /\ call = NoCall
    /\ EmptyStore
    /\ call' = [op |-> "parse_dimensions", arg |-> d]
    /\ resp' = parse_dimensions(d)
    /\ UNCHANGED <<dbVars, mediaVars, sceneVars>>

\* ------------------------------------------------------ list
\* list(dict.fromkeys(story_ids)): the first occurrence of each id, in order
RECURSIVE dict_fromkeys(_)
dict_fromkeys(q) ==
    IF q = <<>> THEN <<>>
    ELSE LET init == dict_fromkeys(SubSeq(q, 1, Len(q) - 1))
         IN IF InSeq(q[Len(q)], init) THEN init ELSE Append(init, q[Len(q)])

\* list(reversed(story_ids))
reversed(q) == [i \in 1..Len(q) |-> q[Len(q) + 1 - i]]

\* story_ids_reversed[offset:offset + limit] for offset >= 0 and limit >= 1
slice(q, offset, limit) ==
    IF offset >= Len(q) THEN <<>>
    ELSE SubSeq(q, offset + 1, IF offset + limit < Len(q) THEN offset + limit
                               ELSE Len(q))

\* the loop over paginated_story_ids: a summary is appended for each id whose
\* document exists, an id without a document is skipped
RECURSIVE fetch_each(_)
fetch_each(q) ==
    IF q = <<>> THEN <<>>
    ELSE IF stories[Head(q)] # NoDoc THEN <<Head(q)>> \o fetch_each(Tail(q))
         ELSE fetch_each(Tail(q))

\* StorageService.get_user_stories_using_id_array(user_id, limit, offset):
\* the story_id of each returned summary, total_count and has_more
get_user_stories_using_id_array(u, limit, offset) ==
    IF users[u] = NoDoc \/ users[u].story_ids = <<>>
    THEN [stories |-> <<>>, total_count |-> 0, has_more |-> FALSE]
    ELSE LET story_ids == dict_fromkeys(users[u].story_ids)
             total_count == Len(story_ids)
             paginated_story_ids == slice(reversed(story_ids), offset, limit)
         IN [stories |-> fetch_each(paginated_story_ids),
             total_count |-> total_count,
             has_more |-> (offset + limit) < total_count]

\* GET /stories/user/{firebase_token}?limit=&offset= verified as user u; the
\* route accepts limit >= 1 and offset >= 0 only
ListCall(u, limit, offset) ==
    /\ call = NoCall
    /\ call' = [op |-> "list", user |-> u, limit |-> limit, offset |-> offset]
    /\ resp' = get_user_stories_using_id_array(u, limit, offset)
    /\ UNCHANGED <<dbVars, mediaVars, sceneVars>>

\* ------------------------------------------------------ rejected generate
\* firebase_token values: the token of each user, and 0 for a token that
\* auth.verify_id_token rejects
Tokens == CallUsers \cup {0}

\* verify_firebase_token: the decoded uid, or HTTPException(401) for any
\* exception of auth.verify_id_token
verify_firebase_token(tok) == IF tok \in CallUsers THEN Return(tok) ELSE Raise(401)

\* the except clauses of generate_story_async without `except HTTPException:
\* raise`: every exception becomes HTTPException(500)
generate_except_all(code) == Answer(500, {"detail"}, "")

\* the except clauses of generate_story_async for an HTTPException with the
\* given status code raised in its try block: it is raised again as it is
generate_except(code) == Answer(code, {"detail"}, "")

\* POST /stories/generate whose token fails verification: the exception
\* leaves the try block at its first statement
GenerateRejected(tok) ==
    /\ call = NoCall
    /\ verify_firebase_token(tok).raised
    /\ call' = [op |-> "generate", token |-> tok]
    /\ resp' = generate_except(verify_firebase_token(tok).value)
    /\ UNCHANGED <<dbVars, mediaVars, sceneVars>>

\* ------------------------------------------------------ upload of a payload
\* len(data) of the payloads tried: empty, just below and at the minimum
PayloadSizes == {0, min_image_size - 1, min_image_size}

\* the size validation of the upload function of each kind: upload_audio
\* ("audio") has none, upload_colored_image ("colored") and upload_image_data
\* ("grayscale") raise Exception for len(image_data) < 1000
too_small(kind, size) == kind # "audio" /\ size < min_image_size

\* one call of upload_audio, upload_colored_image or upload_image_data with a
\* payload of the given size for scene n; storage_ok: upload_from_string,
\* make_public and blob.exists() succeed.  Every exception is raised as
\* HTTPException(500); 1 marks the payload of the call in the bucket.
UploadCall(kind, size, n, storage_ok) ==
    /\ call = NoCall
    /\ EmptyStore
    /\ call' = [op |-> "upload", kind |-> kind, size |-> size, scene |-> n]
    /\ IF too_small(kind, size) \/ ~storage_ok
       THEN /\ resp' = Raise(500)
            /\ UNCHANGED bucket
       ELSE /\ resp' = Return(public_url(Path(kind, n)))
            /\ bucket' = [bucket EXCEPT ![Path(kind, n)] = 1]
    /\ UNCHANGED <<scenes, upl, man>>
    /\ UNCHANGED <<dbVars, mediaVars>>

\* ------------------------------------------------------ image sizes
\* (width, height) of the JPEG create_image returns:
\* image.resize((304, 304)) whatever the request asked for
create_image_size == <<304, 304>>

\* upload_both_images on an image of size sz: the bytes it was given are
\* uploaded as the colored image, and the grayscale image is made from the
\* image resized to (2600, 1200) unless it has that size already
stored_image_sizes(sz) ==
    [colored |-> sz,
     grayscale |-> IF sz # <<2600, 1200>> THEN <<2600, 1200>> ELSE sz]

\* the images of one scene of a request with `dimensions` d, as create_image
\* and upload_both_images make them; target_dimensions = parse_dimensions(d)
\* is used by neither
SceneImagesCall(d) ==
    /\ call = NoCall
    /\ EmptyStore
    /\ call' = [op |-> "scene_images", arg |-> d]
    /\ resp' = stored_image_sizes(create_image_size)
    /\ UNCHANGED <<dbVars, mediaVars, sceneVars>>

\* ------------------------------------------------------ delete
\* the Firestore call of the closure that raises, if any
DeleteFaults == {"none", "user_ref.get", "story_ref.get", "story_ref.delete",
                 "user_ref.update"}

\* outcome of the delete closure: its return value and the store it leaves
DeleteOutcome(ok, st, us) == [ok |-> ok, stories |-> st, users |-> us]

\* the closure deleting whatever document is named, with no ownership check
delete_story_with_array_update_unchecked(st, us, u, s, fail) ==
    IF fail # "none" \/ us[u] = NoDoc \/ st[s] = NoDoc
    THEN DeleteOutcome(FALSE, st, us)
    ELSE LET ids == without(us[u].story_ids, s)
         IN DeleteOutcome(TRUE, [st EXCEPT ![s] = NoDoc],
                          [us EXCEPT ![u] = UserDoc(ids, Len(ids))])

\* delete_story_with_array_update of StorageService.delete_user_story, run
\* to its end on the store (st, us); `except Exception: return False` turns
\* a raising Firestore call into False, after what was already written
delete_story_with_array_update(st, us, u, s, fail) ==
    IF fail = "user_ref.get" THEN DeleteOutcome(FALSE, st, us)
    ELSE IF us[u] = NoDoc THEN DeleteOutcome(FALSE, st, us)
    ELSE IF ~InSeq(s, us[u].story_ids) THEN DeleteOutcome(FALSE, st, us)
    ELSE IF fail = "story_ref.get" THEN DeleteOutcome(FALSE, st, us)
    ELSE IF st[s] = NoDoc THEN DeleteOutcome(FALSE, st, us)
    ELSE IF st[s].user_id # u THEN DeleteOutcome(FALSE, st, us)
    ELSE IF fail = "story_ref.delete" THEN DeleteOutcome(FALSE, st, us)
    ELSE IF fail = "user_ref.update"
         THEN DeleteOutcome(FALSE, [st EXCEPT ![s] = NoDoc], us)
    ELSE LET ids == without(us[u].story_ids, s)
         IN DeleteOutcome(TRUE, [st EXCEPT ![s] = NoDoc],
                          [us EXCEPT ![u] = UserDoc(ids, Len(ids))])

\* DELETE /stories/user/{firebase_token}/story/{story_id}: 401 for a bad
\* token, the success object when the closure returned True, else
\* HTTPException(404)
DeleteCall(tok, s, fail) ==
    /\ call = NoCall
    /\ call' = [op |-> "delete", user |-> tok, story |-> s, fail |-> fail]
    /\ LET v == verify_firebase_token(tok)
           r == delete_story_with_array_update(stories, users, tok, s, fail)
       IN IF v.raised
          THEN /\ resp' = Answer(401, {"detail"}, "")
               /\ UNCHANGED <<stories, users>>
          ELSE /\ resp' = IF r.ok
                          THEN Answer(200, {"success", "message", "story_id",
                                            "tracking_info"}, "")
                          ELSE Answer(404, {"detail"}, "")
               /\ stories' = r.stories
               /\ users' = r.users
    /\ UNCHANGED <<pc, owner, phase, snap, gen, hist, faults, del, deleted>>
    /\ UNCHANGED <<mediaVars, sceneVars>>

\* ------------------------------------------------------ websocket
\* doc_ref.update({'playback_status': status, 'last_played': ...}) of
\* update_status_sync: the fields are set on the document whoever owns it;
\* NotFound on a missing document is swallowed by update_story_status
update_story_status(doc, status) ==
    IF doc = NoDoc THEN NoDoc ELSE [playback_status |-> status] @@ doc

PlaybackStatuses == {"playing"}

\* a {"type": "story_status"} message on /ws/{user_token}: the token is
\* verified when the socket is opened, then the status is written and
\* acknowledged
StoryStatusMessage(tok, s, status) ==
    /\ call = NoCall
    /\ call' = [op |-> "story_status", user |-> tok, story |-> s]
    /\ IF verify_firebase_token(tok).raised
       THEN /\ resp' = [type |-> "closed"]
            /\ UNCHANGED stories
       ELSE /\ resp' = [type |-> "status_received"]
            /\ stories' = [stories EXCEPT ![s] = update_story_status(@, status)]
    /\ UNCHANGED <<users, pc, owner, phase, snap, gen, hist, faults, del, deleted>>
    /\ UNCHANGED <<mediaVars, sceneVars>>

NextCalls ==
    \/ \E s \in StoryIds, raises \in BOOLEAN : FetchCall(s, raises)
    \/ \E s \in StoryIds, raises \in BOOLEAN : DetailsCall(s, raises)
    \/ call = NoCall /\ EmptyStore /\ \E d \in DimInputs : ParseCall(d)
    \/ \E u \in CallUsers, limit \in 1..MaxStories, offset \in 0..MaxStories :
          ListCall(u, limit, offset)
    \/ \E tok \in Tokens : GenerateRejected(tok)
    \/ \E kind \in Kinds, size \in PayloadSizes, n \in 1..MaxScenes,
          storage_ok \in BOOLEAN : UploadCall(kind, size, n, storage_ok)
    \/ call = NoCall /\ EmptyStore /\ \E d \in DimInputs : SceneImagesCall(d)
    \/ \E tok \in Tokens, s \in StoryIds, fail \in DeleteFaults :
          DeleteCall(tok, s, fail)
    \/ \E tok \in Tokens, s \in StoryIds, status \in PlaybackStatuses :
          StoryStatusMessage(tok, s, status)

SpecCalls == InitCalls /\ [][NextCalls]_vars

\* ====================================================== operation sequences
\* registrations, saves and deletes run one after the other, each to its
\* end, on the store the earlier ones left
InitOps ==
    /\ stories = [s \in StoryIds |-> NoDoc]
    /\ users = [u \in CallUsers |-> NoDoc]
    /\ pc = [s \in StoryIds |-> "idle"]
    /\ owner = [s \in StoryIds |-> 0]
    /\ phase = [s \in StoryIds |-> "init"]
    /\ snap = [s \in StoryIds |-> NoSnap]
    /\ gen = [s \in StoryIds |-> NoGen]
    /\ hist = [s \in StoryIds |-> FALSE]
    /\ faults = 0
    /\ del = NoDel
    /\ deleted = {}
    /\ MediaIdle
    /\ ScenesIdle
    /\ CallsIdle

\* the Firestore call of save_metadata_with_story_arrays that raises, if any
SaveFaults == {"none", "doc_ref.set", "user_ref.get", "doc_ref.update",
               "user_ref.update"}

\* the manifests generate_story_async and generate_story_background save
SavedManifests == {initial_manifest, error_manifest}

SaveOutcome(st, us) == [stories |-> st, users |-> us]

\* the index update with new_story_count = current_story_count + 1
user_update_data_count_incremented(doc, s) ==
    LET existing == IF doc = NoDoc THEN <<>> ELSE doc.story_ids
        current_story_count == IF doc = NoDoc THEN 0 ELSE doc.story_count
    IN UserDoc(updated_story_ids(existing, s), current_story_count + 1)

\* user_update_data of save_metadata_with_story_arrays on the user document
\* read: story_ids and story_count = len(updated_story_ids)
user_update_data(doc, s) ==
    LET existing == IF doc = NoDoc THEN <<>> ELSE doc.story_ids
        ids == updated_story_ids(existing, s)
    IN UserDoc(ids, Len(ids))

\* save_metadata_with_story_arrays run to its end on the store (st, us);
\* save_story_metadata swallows the exception of a raising Firestore call,
\* after what was already written
save_metadata_with_story_arrays(st, us, u, s, m, fail) ==
    LET written == [st EXCEPT ![s] = story_doc(u, m)]
    IN IF fail = "doc_ref.set" THEN SaveOutcome(st, us)
       ELSE IF fail \in {"user_ref.get", "doc_ref.update", "user_ref.update"}
            THEN SaveOutcome(written, us)
       ELSE SaveOutcome(written, [us EXCEPT ![u] = user_update_data(us[u], s)])

\* save_story_metadata(story_id, user_id, ..., manifest) for a story_id that
\* was generated for user u
SaveOp(u, s, m, fail) ==
    /\ owner[s] \in {0, u}
    /\ owner' = [owner EXCEPT ![s] = u]
    /\ LET r == save_metadata_with_story_arrays(stories, users, u, s, m, fail)
       IN /\ stories' = r.stories
          /\ users' = r.users
    /\ call' = [op |-> "save"]
    /\ UNCHANGED <<pc, phase, snap, gen, hist, faults, del, deleted, resp>>
    /\ UNCHANGED <<mediaVars, sceneVars>>

\* POST /users/register verified as user u: 409 when get_user_profile
\* returns a profile; it returns None for a missing document and for a
\* read that raised, and create_user_profile then replaces the whole
\* document by a profile with story_count 0 and no story_ids field
RegisterOp(u, read_raises) ==
    /\ users' = IF users[u] = NoDoc \/ read_raises
                THEN [users EXCEPT ![u] = UserDoc(<<>>, 0)]
                ELSE users
    /\ call' = [op |-> "register"]
    /\ UNCHANGED <<stories, pc, owner, phase, snap, gen, hist, faults, del, deleted, resp>>
    /\ UNCHANGED <<mediaVars, sceneVars>>

\* StorageService.delete_user_story(story_id, user_id)
DeleteOp(u, s, fail) ==
    /\ LET r == delete_story_with_array_update(stories, users, u, s, fail)
       IN /\ stories' = r.stories
          /\ users' = r.users
          /\ deleted' = IF r.ok THEN deleted \cup {s} ELSE deleted
    /\ call' = [op |-> "delete"]
    /\ UNCHANGED <<pc, owner, phase, snap, gen, hist, faults, del, resp>>
    /\ UNCHANGED <<mediaVars, sceneVars>>

NextOps ==
    \/ \E u \in CallUsers, s \in StoryIds, m \in SavedManifests, fail \in SaveFaults :
          SaveOp(u, s, m, fail)
    \/ \E u \in CallUsers, read_raises \in BOOLEAN : RegisterOp(u, read_raises)
    \/ \E u \in CallUsers, s \in StoryIds, fail \in DeleteFaults : DeleteOp(u, s, fail)

SpecOps == InitOps /\ [][NextOps]_vars

\* ====================================================== properties
Rank(st) == CASE st = "processing" -> 1
              [] st = "generating_media" -> 2
              [] OTHER -> 3

Terminal(st) == st \in {"completed", "failed"}

\* the generate handler has answered with story_id s
Answered(s) == pc[s] \notin {"idle"} /\ ~(phase[s] = "init" /\ pc[s] \in
                   {"sv_set", "sv_get_user", "sv_number", "sv_user"})

\* the background task of s has not yet issued a status write
NoLaterStatus(s) ==
    \/ pc[s] \in {"bg_text", "bg_status"}
    \/ phase[s] = "final" /\ pc[s] = "sv_set"

\* the final save_story_metadata call of s has written the story document
FinalWritten(s) ==
    phase[s] = "final" /\ pc[s] \in {"sv_get_user", "sv_number", "sv_user"}

\* C1: once generate has answered with a story_id, a status fetch of it
\* finds the story and reports 'processing' until the background task writes
\* a later status.
C1_FetchableAfterGenerate ==
    \A s \in StoryIds :
        Answered(s) /\ NoLaterStatus(s) => fetch_story_status(s) = "processing"

\* C2: the persisted status of a story only moves forward along
\* processing -> generating_media -> completed | failed, and a completed or
\* failed status is never changed by a later write.
C2_StatusForward ==
    [][\A s \in StoryIds :
          stories[s] # NoDoc /\ stories'[s] # NoDoc =>
             /\ Rank(stories'[s].status) >= Rank(stories[s].status)
             /\ Terminal(stories[s].status) =>
                   stories'[s].status = stories[s].status]_vars

\* a story that went through generating_media has been written as failed
C2_Witness ==
    \E s \in StoryIds :
        /\ FinalWritten(s) /\ gen[s].ok /\ ~hist[s]
        /\ stories[s] # NoDoc /\ stories[s].status = "failed"

\* C3: when text generation (N scenes) and every later call succeed, the
\* final save persists status 'completed', a non-empty title, total_scenes = N
\* and N scene records.
C3_AllSucceedCompleted ==
    \A s \in StoryIds :
        FinalWritten(s) /\ gen[s].ok /\ ~hist[s] /\ stories[s] # NoDoc =>
            /\ stories[s].status = "completed"
            /\ stories[s].title # ""
            /\ stories[s].total_scenes = gen[s].n
            /\ stories[s].scenes_data = gen[s].n

\* C4: a story whose background task has ended has persisted status
\* 'completed' or 'failed'.
C4_EndsTerminal ==
    \A s \in StoryIds :
        pc[s] = "done" /\ stories[s] # NoDoc => Terminal(stories[s].status)

C6_Timing ==
    man.status = "completed" =>
        /\ man.scenes[1].start_time = 0
        /\ \A i \in 1..(Len(man.scenes) - 1) :
              /\ man.scenes[i + 1].start_time =
                    man.scenes[i].start_time + man.scenes[i].duration
              /\ man.scenes[i].start_time <= man.scenes[i + 1].start_time

\* a completed manifest of several scenes with a scene of non-zero duration
\* before the last
C6_Witness ==
    /\ man.status = "completed"
    /\ Len(man.scenes) >= 2
    /\ man.scenes[1].duration = 559
    /\ man.scenes[2].start_time = 559

Occurrences(x, q) == Cardinality({i \in 1..Len(q) : q[i] = x})

\* the step is the user document write of the save_story_metadata call of s
IsSaveUserWrite(s) ==
    /\ pc[s] = "sv_user" /\ pc'[s] # "sv_user" /\ faults' = faults
    /\ users'[owner[s]] # NoDoc

\* C7: a save leaves its story_id exactly once in story_ids, and a repeated
\* save (the id is already in the index it read, and the index was not
\* rewritten since) leaves story_ids and story_count as they were.
C7_SaveIdempotent ==
    [][\A s \in StoryIds :
          IsSaveUserWrite(s) =>
             /\ Occurrences(s, users'[owner[s]].story_ids) = 1
             /\ ( /\ users[owner[s]] # NoDoc
                  /\ InSeq(s, users[owner[s]].story_ids)
                  /\ snap[s].story_ids = users[owner[s]].story_ids )
                => users'[owner[s]] = users[owner[s]]]_vars

\* both saves of a story have run without a failure and the id is indexed
C7_Witness ==
    \E s \in StoryIds :
        /\ pc[s] = "done" /\ faults = 0
        /\ stories[s] # NoDoc /\ stories[s].status = "failed"
        /\ users[owner[s]] # NoDoc
        /\ Occurrences(s, users[owner[s]].story_ids) = 1

\* C8: generate_image_batch never raises and returns one result per prompt,
\* in input order, each the image or a placeholder.
C8_ImageBatchNeverRaises ==
    batch.kind = "image" =>
        /\ out.st # "raised"
        /\ out.st = "returned" =>
              /\ Len(out.result) = batch.n
              /\ \A i \in 1..batch.n :
                    out.result[i] \in {<<"image", i>>, <<"placeholder", i>>}

\* C9: generate_audio_batch never raises and returns one result per scene
\* text, in input order, failed items replaced by a placeholder.
C9_AudioBatchNeverRaises ==
    batch.kind = "audio" =>
        /\ out.st # "raised"
        /\ out.st = "returned" =>
              /\ Len(out.result) = batch.n
              /\ \A i \in 1..batch.n :
                    out.result[i] \in {<<"audio", i>>, <<"placeholder", i>>}

\* C10: when text generation succeeded and no upload failed, the story is
\* not persisted as 'failed'.
C10_MediaFailureNotFatal ==
    \A s \in StoryIds :
        gen[s].ok /\ stories[s] # NoDoc => stories[s].status # "failed"

\* the task of s is in the error save that follows a failed text generation
TextFailed(s) ==
    /\ phase[s] = "final" /\ ~gen[s].ok
    /\ pc[s] \in {"sv_set", "sv_get_user", "sv_number", "sv_user"}

DeleteSucceeds ==
    /\ del.pc = "d_update" /\ del' = NoDel /\ faults' = faults
    /\ users[del.user] # NoDoc

\* C12: when a delete of story S by its owner U succeeds, S has no document
\* and is not in U's story_ids, story_count is one less than before, and a
\* status fetch of S reports 'not_found'.
C12_DeleteThenNotFound ==
    [][DeleteSucceeds =>
          /\ stories'[del.story] = NoDoc
          /\ ~InSeq(del.story, users'[del.user].story_ids)
          /\ users'[del.user].story_count = users[del.user].story_count - 1
          /\ fetch_answer(get_story_details(stories'[del.story], FALSE)).status
                = "not_found"]_vars

\* C13: every story_id listed in a user's story_ids has a document in the
\* stories collection, in every state, the states between the writes of a
\* save or a delete included.
C13_IndexedStoriesExist ==
    \A u \in Users :
        users[u] # NoDoc =>
            \A i \in 1..Len(users[u].story_ids) :
                stories[users[u].story_ids[i]] # NoDoc

C15_DetailsNotFound ==
    (call.op = "details" /\ ~call.raises /\ stories[call.story] = NoDoc) =>
        resp.code = 404

\* d is "<W>x<H>": one 'x' with an integer literal on each side
WxH(d) ==
    /\ ~d.none
    /\ Cardinality({i \in 1..Len(d.chars) : d.chars[i] = "x"}) = 1
    /\ LET k == CHOOSE i \in 1..Len(d.chars) : d.chars[i] = "x"
       IN /\ IsInt(SubSeq(d.chars, 1, k - 1))
          /\ IsInt(SubSeq(d.chars, k + 1, Len(d.chars)))
WidthOf(d) ==
    LET k == CHOOSE i \in 1..Len(d.chars) : d.chars[i] = "x"
    IN int(SubSeq(d.chars, 1, k - 1))
HeightOf(d) ==
    LET k == CHOOSE i \in 1..Len(d.chars) : d.chars[i] = "x"
    IN int(SubSeq(d.chars, k + 1, Len(d.chars)))

\* C16: parse_dimensions never raises; "<W>x<H>" with integers W and H gives
\* (W, H), "932x430" gives (932, 430), and every other input (no 'x', several
\* 'x', a part that is not an integer, None) gives (1200, 2600).
C16_ParseDimensions ==
    call.op = "parse_dimensions" =>
        /\ ~resp.raised
        /\ resp.value = IF WxH(call.arg)
                        THEN <<WidthOf(call.arg), HeightOf(call.arg)>>
                        ELSE <<1200, 2600>>
        /\ call.arg = Str(<<"9", "3", "2", "x", "4", "3", "0">>) =>
              resp.value = <<932, 430>>

\* a well-formed string was parsed to a pair other than the default
C16_Witness ==
    /\ call.op = "parse_dimensions"
    /\ call.arg = Str(<<"-", "3", "x", "4", "4">>)
    /\ resp = Return(<<-3, 44>>)

\* the ids user u has indexed, oldest first
IndexOf(u) == IF users[u] = NoDoc THEN <<>> ELSE users[u].story_ids

\* the set of ids on the page of user u at (limit, offset)
PageIds(u, limit, offset) ==
    LET page == get_user_stories_using_id_array(u, limit, offset).stories
    IN {page[i] : i \in 1..Len(page)}

\* C17: a page holds the indexed ids newest first at positions
\* offset .. offset+limit-1, total_count is the number of distinct ids,
\* has_more is offset + limit < total_count, and the consecutive pages of a
\* limit are disjoint and together hold every indexed id.
C17_ListPages ==
    call.op = "list" =>
        LET ids == IndexOf(call.user)
            n == Len(ids)
            left == IF n > call.offset THEN n - call.offset ELSE 0
            size == IF left < call.limit THEN left ELSE call.limit
        IN /\ resp.stories = [i \in 1..size |-> ids[n - call.offset - i + 1]]
           /\ resp.total_count = Cardinality({ids[i] : i \in 1..n})
           /\ resp.has_more = (call.offset + call.limit < resp.total_count)
           /\ \A j, k \in 0..n :
                 j # k => PageIds(call.user, call.limit, j * call.limit)
                          \cap PageIds(call.user, call.limit, k * call.limit) = {}
           /\ UNION {PageIds(call.user, call.limit, k * call.limit) : k \in 0..n}
                 = {ids[i] : i \in 1..n}

\* C18: a generate request whose token fails verification is answered with
\* HTTP 401 and leaves the stories, the user documents and every task
\* position as they were (no story_id allocated, no task started).
C18_RejectedGenerateChangesNothing ==
    [][(call.op = "none" /\ call'.op = "generate"
        /\ verify_firebase_token(call'.token).raised) =>
          /\ resp'.code = 401
          /\ stories' = stories /\ users' = users
          /\ pc' = pc /\ owner' = owner /\ bucket' = bucket]_vars

\* a generate request was rejected on a store that holds a story
C18_Witness ==
    /\ call.op = "generate" /\ call.token = 0
    /\ resp.code = 401
    /\ \E s \in StoryIds : stories[s] # NoDoc
    /\ \A s \in StoryIds : pc[s] = "idle"

\* C19: an upload of a payload below the minimum size, by any of upload_audio,
\* upload_colored_image and upload_image_data, raises and stores no object.
C19_SmallPayloadRejected ==
    (call.op = "upload" /\ call.size < min_image_size) =>
        /\ resp.raised
        /\ bucket[Path(call.kind, call.scene)] = 0

C22_AllOrNothing ==
    /\ man.status = "completed" =>
          /\ Len(man.scenes) = Len(scenes)
          /\ \A i \in 1..Len(scenes) :
                LET n == scenes[i].scene_number
                IN /\ man.scenes[i].scene_number = n
                   /\ man.scenes[i].audio_url = public_url(Path("audio", n))
                   /\ man.scenes[i].image_url = public_url(Path("grayscale", n))
                   /\ man.scenes[i].colored_image_url = public_url(Path("colored", n))
                   /\ \A k \in Kinds : bucket[Path(k, n)] # 0
    /\ man.status = "failed" => Len(man.scenes) = 0

\* a failed manifest while some uploads of the story did store their objects
C22_Witness ==
    /\ man.status = "failed"
    /\ \E p \in Paths : bucket[p] # 0
    /\ \E k \in 1..Len(upl) : upl[k] = "ok"


\* image tasks inside the `async with semaphore:` block, the abandoned
\* executor thread of a timed-out call included
InFlightRequests == {i \in Items : item[i].st \in {"run", "download", "abandoned"}}

\* C24: within one generate_image_batch call at most one image request is in
\* flight at any time, for any number of items and any interleaving.
C24_OneRequestInFlight ==
    batch.kind = "image" => Cardinality(InFlightRequests) <= 1

\* a task holds the permit while another waits, after an earlier task finished
C24_Witness ==
    /\ batch.kind = "image"
    /\ Cardinality(InFlightRequests) = 1
    /\ \E i \in Items : item[i].st = "waiting"
    /\ semaphore = 0

\* C25: the provider is called at most max_retries times per image item, and a
\* task gives up (raises out of the retry loop) only on its last attempt,
\* whatever the failure was.
C25_EveryFailureRetried ==
    [][batch.kind = "image" =>
         \A i \in 1..batch.n :
            /\ item'[i].attempt < max_retries
            /\ (item[i].st = "run" /\ item'[i].st = "exc")
                  => item[i].attempt = max_retries - 1]_vars

\* C26: once more than 5 provider calls in a row have failed, no further
\* provider call is made (a task neither enters the retry loop nor retries).
C26_BreakerOpens ==
    [][batch.kind = "image" =>
         \A i \in 1..batch.n :
            (item'[i].st = "run" /\ item'[i] # item[i]) => provider_failures' <= 5]_vars


\* user u does not own story s: s is not in u's story_ids, or the document
\* is missing, or its user_id is another user
NotOwner(u, s) ==
    \/ users[u] = NoDoc
    \/ ~InSeq(s, users[u].story_ids)
    \/ stories[s] = NoDoc
    \/ stories[s].user_id # u

\* C23: a delete request for story S by a user who does not own S reports
\* failure and leaves every story document and every user document (the
\* requester's and the owner's index and story_count) unchanged, whichever
\* Firestore call fails.
C23_ForeignDeleteChangesNothing ==
    [][(call'.op = "delete" /\ call'.user \in CallUsers
          /\ NotOwner(call'.user, call'.story))
       => /\ resp'.code = 404
          /\ stories' = stories
          /\ users' = users]_vars

\* a refused delete of a stored story of another user, by a user who has
\* stories of their own
C23_Witness ==
    /\ call.op = "delete"
    /\ call.user \in CallUsers
    /\ call.fail = "none"
    /\ resp.code = 404
    /\ users[call.user] # NoDoc
    /\ users[call.user].story_ids # <<>>
    /\ stories[call.story] # NoDoc
    /\ stories[call.story].user_id # call.user
    /\ \E v \in CallUsers : /\ users[v] # NoDoc
                            /\ InSeq(call.story, users[v].story_ids)

\* C30: a request made as user U (a delete, or a story_status message on U's
\* websocket) never changes a story document whose user_id is another user.
C30_OnlyOwnerModifies ==
    [][\A s \in StoryIds :
         (/\ call'.op \in {"delete", "story_status"}
          /\ stories[s] # NoDoc
          /\ stories[s].user_id # call'.user)
         => stories'[s] = stories[s]]_vars


\* no save and no delete is between its index read and its index write
NoIndexWriter ==
    /\ del.pc = "idle"
    /\ \A s \in StoryIds : pc[s] \notin {"sv_set", "sv_get_user", "sv_number", "sv_user"}

\* C27: no index update is lost: once the saves and deletes have finished
\* (and no Firestore call has failed), every story that was saved and not
\* deleted is in its owner's story_ids and every deleted one is absent.
C27_NoLostIndexUpdate ==
    (NoIndexWriter /\ faults = 0) =>
        \A s \in StoryIds :
            /\ (pc[s] \notin {"idle"} /\ s \notin deleted /\ users[owner[s]] # NoDoc)
                  => InSeq(s, users[owner[s]].story_ids)
            /\ (s \in deleted /\ users[owner[s]] # NoDoc)
                  => ~InSeq(s, users[owner[s]].story_ids)

\* C28: once a delete of story S has succeeded, S has no document and is in
\* no index, whatever its background task writes afterwards.
C28_DeletedStaysDeleted ==
    \A s \in deleted :
        /\ stories[s] = NoDoc
        /\ \A u \in Users : users[u] = NoDoc \/ ~InSeq(s, users[u].story_ids)


\* no id is twice in the list
NoDuplicates(q) == \A i, j \in 1..Len(q) : q[i] = q[j] => i = j

\* C29: after any sequence of registrations, saves and deletes, every user
\* document has story_count equal to the number of its story_ids (0 for a
\* profile without story_ids) and no story_id twice.
C29_CountMatchesIndex ==
    \A u \in DOMAIN users :
        users[u] # NoDoc =>
            /\ users[u].story_count = Len(users[u].story_ids)
            /\ NoDuplicates(users[u].story_ids)

\* two stories saved twice each (initial and final manifest) for a
\* registered user, then the first one deleted
C29_Witness ==
    /\ call.op = "delete"
    /\ \E u \in CallUsers :
          /\ users[u] = UserDoc(<<2>>, 1)
          /\ owner[1] = u
          /\ 1 \in deleted
          /\ stories[1] = NoDoc
          /\ stories[2] = story_doc(u, error_manifest)

====
